---- MODULE Spec2Model ----
(***************************************************************************)
(* A model of the z-score back-tester: the polars-based BackTester         *)
(* (src/backtester.py) and the numpy-based VectorBackTester                *)
(* (src/vector_backtest.py).                                               *)
(*                                                                         *)
(* Conventions.                                                            *)
(*  - A series is a function over 0..n-1, so that bar i of the code is     *)
(*    bar i of the model.                                                  *)
(*  - Arithmetic is exact: a mean is the rational sum/w, a standard        *)
(*    deviation is kept as its square (a rational), and a z-score is       *)
(*    compared with a threshold by cross-multiplying.  Rounding of         *)
(*    floating point is not modelled.                                      *)
(*  - A float64 cell of numpy is a record with kind "nan", "pinf",         *)
(*    "ninf" or "num"; a cell of a polars series may also be "null".       *)
(*  - An Int64 cell of polars (a cast comparison) is a set: {} is null,    *)
(*    {v} is the value v.                                                  *)
(*  - multiplier is counted in halves: multiplier k stands for k/2.        *)
(***************************************************************************)
EXTENDS Integers, Sequences, FiniteSets, TLC

\* Longest series enumerated.
MaxLen == 4

\* Values a factor takes.
FactorValues == {0, 1, 3}

\* rolling_window values tried: negative, valid, and longer than the series.
\* (A window of 0 is left out: what the polars kernel does with it is not
\* decided by this repository's source.)
Windows == {-1} \cup (1..(MaxLen + 1))

\* multiplier values tried, in halves: 0, 0.5, 1, 1.5.
Multipliers == {0, 1, 2, 3}

\* The polars builds the source runs on.  nan_order: how a comparison treats
\* NaN ("total": NaN equals NaN and is greater than every number, the
\* documented order of current polars; "ieee": every comparison with NaN is
\* false).  std_one: the sample standard deviation of a one-element window
\* (null, or infinity).
Builds == [nan_order : {"ieee", "total"}, std_one : {"null", "inf"}]

Series(S) == UNION {[0..(n - 1) -> S] : n \in 1..MaxLen}

len(x) == Cardinality(DOMAIN x)

abs(a) == IF a < 0 THEN -a ELSE a

RECURSIVE SumOver(_, _, _)
\* x[lo] + ... + x[hi]
SumOver(x, lo, hi) == IF lo > hi THEN 0 ELSE x[lo] + SumOver(x, lo + 1, hi)

RECURSIVE SumSqOver(_, _, _)
\* x[lo]^2 + ... + x[hi]^2
SumSqOver(x, lo, hi) ==
    IF lo > hi THEN 0 ELSE x[lo] * x[lo] + SumSqOver(x, lo + 1, hi)

(***************************************************************************)
(* Cells.                                                                  *)
(***************************************************************************)
\* A rational n/d (d > 0); for a standard deviation, n/d is its square.
Num(n, d) == [kind |-> "num", n |-> n, d |-> d]
NullCell == [kind |-> "null", n |-> 0, d |-> 1]
NaNCell == [kind |-> "nan", n |-> 0, d |-> 1]
PInfCell == [kind |-> "pinf", n |-> 0, d |-> 1]
NInfCell == [kind |-> "ninf", n |-> 0, d |-> 1]

\* A z-score a / sqrt(v) with a = an/ad and v = vn/vd > 0.
ZNum(an, ad, vn, vd) == [kind |-> "num", an |-> an, ad |-> ad, vn |-> vn, vd |-> vd]
ZNull == [kind |-> "null", an |-> 0, ad |-> 1, vn |-> 1, vd |-> 1]
ZNaN == [kind |-> "nan", an |-> 0, ad |-> 1, vn |-> 1, vd |-> 1]
ZPInf == [kind |-> "pinf", an |-> 0, ad |-> 1, vn |-> 1, vd |-> 1]
ZNInf == [kind |-> "ninf", an |-> 0, ad |-> 1, vn |-> 1, vd |-> 1]

\* (x - mean) / std, cell by cell: null wins, then NaN; a finite numerator
\* over an infinite std is 0, over a zero std it is NaN or an infinity.
ZDivide(xi, mean, std) ==
    IF mean.kind = "null" \/ std.kind = "null" THEN ZNull
    ELSE IF mean.kind = "nan" \/ std.kind = "nan" THEN ZNaN
    ELSE LET an == xi * mean.d - mean.n
             ad == mean.d
         IN  IF std.kind = "pinf" THEN ZNum(0, 1, 1, 1)
             ELSE IF std.n = 0
                  THEN IF an = 0 THEN ZNaN
                       ELSE IF an > 0 THEN ZPInf ELSE ZNInf
                  ELSE ZNum(an, ad, std.n, std.d)

\* 2*z > k for a finite z (k an integer number of halves).
NumGt(z, k) ==
    LET lhs == 4 * z.an * z.an * z.vd
        rhs == k * k * z.ad * z.ad * z.vn
    IN  IF k >= 0 THEN z.an > 0 /\ lhs > rhs
        ELSE z.an >= 0 \/ lhs < rhs

\* 2*z < k for a finite z.
NumLt(z, k) ==
    LET lhs == 4 * z.an * z.an * z.vd
        rhs == k * k * z.ad * z.ad * z.vn
    IN  IF k <= 0 THEN z.an < 0 /\ lhs > rhs
        ELSE z.an <= 0 \/ lhs < rhs

(***************************************************************************)
(* numpy comparisons of a float64 array with a scalar, then .astype(int):  *)
(* IEEE order, every comparison with NaN is False.                         *)
(***************************************************************************)
np_gt(z, k) ==
    IF z.kind = "nan" THEN 0
    ELSE IF z.kind = "pinf" THEN 1
    ELSE IF z.kind = "ninf" THEN 0
    ELSE IF NumGt(z, k) THEN 1 ELSE 0

np_lt(z, k) ==
    IF z.kind = "nan" THEN 0
    ELSE IF z.kind = "pinf" THEN 0
    ELSE IF z.kind = "ninf" THEN 1
    ELSE IF NumLt(z, k) THEN 1 ELSE 0

np_le(z, k) ==
    IF z.kind = "nan" THEN 0
    ELSE IF z.kind = "pinf" THEN 0
    ELSE IF z.kind = "ninf" THEN 1
    ELSE IF NumGt(z, k) THEN 0 ELSE 1

np_ge(z, k) ==
    IF z.kind = "nan" THEN 0
    ELSE IF z.kind = "pinf" THEN 1
    ELSE IF z.kind = "ninf" THEN 0
    ELSE IF NumLt(z, k) THEN 0 ELSE 1

(***************************************************************************)
(* polars comparisons of a Float64 series with a scalar, then              *)
(* .cast(pl.Int64): null stays null; NaN follows the build's order.        *)
(***************************************************************************)
pl_gt(z, k, build) ==
    IF z.kind = "null" THEN {}
    ELSE IF z.kind = "nan"
         THEN IF build.nan_order = "total" THEN {1} ELSE {0}
         ELSE {np_gt(z, k)}

pl_lt(z, k, build) ==
    IF z.kind = "null" THEN {}
    ELSE IF z.kind = "nan" THEN {0}
    ELSE {np_lt(z, k)}

pl_le(z, k, build) ==
    IF z.kind = "null" THEN {}
    ELSE IF z.kind = "nan" THEN {0}
    ELSE {np_le(z, k)}

pl_ge(z, k, build) ==
    IF z.kind = "null" THEN {}
    ELSE IF z.kind = "nan"
         THEN IF build.nan_order = "total" THEN {1} ELSE {0}
         ELSE {np_ge(z, k)}

\* series * -1: null stays null.
pl_neg(c) == {-v : v \in c}

\* Python's truth value of series[i]: None and 0 are false.
Truthy(c) == c # {} /\ c # {0}

(***************************************************************************)
(* Rolling statistics.                                                     *)
(***************************************************************************)
\* pl.Series.rolling_mean(window_size=w), w >= 1: null until the window is
\* full (so every cell is null when w exceeds the length).
pl_rolling_mean(x, w) ==
    [i \in DOMAIN x |->
        IF i < w - 1 THEN NullCell ELSE Num(SumOver(x, i - w + 1, i), w)]

\* pl.Series.rolling_std(window_size=w), w >= 1, sample formula (ddof 1),
\* kept as the variance (w*sum(x^2) - sum(x)^2) / (w*(w-1)).
pl_rolling_std(x, w, build) ==
    [i \in DOMAIN x |->
        IF i < w - 1 THEN NullCell
        ELSE IF w = 1
             THEN IF build.std_one = "null" THEN NullCell ELSE PInfCell
             ELSE LET s == SumOver(x, i - w + 1, i)
                      ss == SumSqOver(x, i - w + 1, i)
                  IN  Num(w * ss - s * s, w * (w - 1))]

\* np.convolve(array, np.ones(w) / w, mode="valid") for 1 <= w <= len(array):
\* one cell per full window.
np_convolve_valid(array, w) ==
    [k \in 0..(len(array) - w) |-> Num(SumOver(array, k, k + w - 1), w)]

\* VectorBackTester._compute_rolling_mean raises ValueError when w < 0
\* (np.ones), w = 0 (np.convolve of an empty window) or w > len(array) (the
\* convolution is longer than the slice rolling_array[w-1:] it is stored in).
vbt_rolling_mean_raises(array, w) == w < 1 \/ w > len(array)

\* VectorBackTester._compute_rolling_mean, 1 <= w <= len(array).
vbt_compute_rolling_mean(array, w) ==
    LET rolling_mean == np_convolve_valid(array, w)
    IN  [i \in DOMAIN array |->
            IF i < w - 1 THEN NaNCell ELSE rolling_mean[i - (w - 1)]]

\* np.std(window, ddof=1): NaN for a one-element window.
np_std(array, lo, w) ==
    IF w = 1 THEN NaNCell
    ELSE LET s == SumOver(array, lo, lo + w - 1)
             ss == SumSqOver(array, lo, lo + w - 1)
         IN  Num(w * ss - s * s, w * (w - 1))

\* VectorBackTester._compute_rolling_std, 1 <= w <= len(array).
vbt_compute_rolling_std(array, w) ==
    [i \in DOMAIN array |->
        IF i < w - 1 THEN NaNCell ELSE np_std(array, i - (w - 1), w)]

(***************************************************************************)
(* State.                                                                  *)
(***************************************************************************)
VARIABLES
    factor,          \* the factor column
    price,           \* the price column
    build,           \* the polars build
    rolling_window,  \* parameters of the current invocation
    multiplier,
    bt,              \* BackTester._z_score_strategy: its locals and position
    vbt,             \* VectorBackTester._z_score_strategy_position
    trade_info,      \* the ledger of the latest _compute_trade_statistics
    prev_info,       \* the ledger of the invocation before it
    beta,            \* the samples _compute_beta hands to the regression
    opt              \* optimize_params_and_plot_heatmap: pool and grid

vars == <<factor, price, build, rolling_window, multiplier, bt, vbt,
          trade_info, prev_info, beta, opt>>

n == len(factor)

Idle == [pc |-> "start", z_score |-> <<>>, long_entry |-> <<>>,
         long_exit |-> <<>>, short_entry |-> <<>>, short_exit |-> <<>>,
         position |-> <<>>, i |-> 0]

NoLedger == [pc |-> "none"]
NoBeta == [pc |-> "none"]
NoOpt == [pc |-> "none"]

(***************************************************************************)
(* BackTester._z_score_strategy (polars).                                  *)
(***************************************************************************)
\* Lines 22-24: the z-score series.
bt_z_score(x, w, b) ==
    LET rolling_mean == pl_rolling_mean(x, w)
        rolling_std == pl_rolling_std(x, w, b)
    IN  [i \in DOMAIN x |-> ZDivide(x[i], rolling_mean[i], rolling_std[i])]

\* Lines 30-34: the four flag series.
bt_long_entry(z, k, b) == [i \in DOMAIN z |-> pl_gt(z[i], k, b)]
bt_long_exit(z, k, b) == [i \in DOMAIN z |-> pl_le(z[i], 0, b)]
bt_short_entry(z, k, b) == [i \in DOMAIN z |-> pl_neg(pl_lt(z[i], -k, b))]
bt_short_exit(z, k, b) == [i \in DOMAIN z |-> pl_ge(z[i], 0, b)]

\* The loop body without the carry-forward branch: a bar with no entry keeps
\* the zero it was initialised with.
bt_loop_body_no_carry(position, i, long_entry, long_exit, short_entry, short_exit) ==
    LET p1 == IF Truthy(long_entry[i]) THEN 1
              ELSE IF Truthy(short_entry[i]) THEN -1
              ELSE 0
        p2 == IF (p1 = 1 /\ Truthy(long_exit[i]))
                 \/ (p1 = -1 /\ Truthy(short_exit[i]))
              THEN 0 ELSE p1
    IN  [position EXCEPT ![i] = p2]

\* Lines 38-48: one pass of the loop body at bar i.
bt_loop_body(position, i, long_entry, long_exit, short_entry, short_exit) ==
    LET p1 == IF Truthy(long_entry[i]) THEN 1
              ELSE IF Truthy(short_entry[i]) THEN -1
              ELSE position[i - 1]
        p2 == IF (p1 = 1 /\ Truthy(long_exit[i]))
                 \/ (p1 = -1 /\ Truthy(short_exit[i]))
              THEN 0 ELSE p1
    IN  [position EXCEPT ![i] = p2]

\* The window size is handed to the polars kernel as an unsigned integer: a
\* negative one raises (OverflowError) at line 22.
bt_window_raises(w) == w < 0

\* Lines 18-36: statistics, flags, position = zeros.
BT_ZScore ==
    /\ bt.pc = "start"
    /\ bt' = IF bt_window_raises(rolling_window)
             THEN [bt EXCEPT !.pc = "raised"]
             ELSE LET z == bt_z_score(factor, rolling_window, build)
                  IN  [pc |-> "loop",
                       z_score |-> z,
                       long_entry |-> bt_long_entry(z, multiplier, build),
                       long_exit |-> bt_long_exit(z, multiplier, build),
                       short_entry |-> bt_short_entry(z, multiplier, build),
                       short_exit |-> bt_short_exit(z, multiplier, build),
                       position |-> [i \in DOMAIN factor |-> 0],
                       i |-> 1]
    /\ UNCHANGED <<factor, price, build, rolling_window, multiplier, vbt,
                   trade_info, prev_info, beta, opt>>

\* Lines 37-48: for i in range(1, len(position)).
BT_Loop ==
    /\ bt.pc = "loop"
    /\ bt.i < n
    /\ bt' = [bt EXCEPT
                !.position = bt_loop_body(bt.position, bt.i, bt.long_entry,
                                          bt.long_exit, bt.short_entry,
                                          bt.short_exit),
                !.i = bt.i + 1]
    /\ UNCHANGED <<factor, price, build, rolling_window, multiplier, vbt,
                   trade_info, prev_info, beta, opt>>

\* Lines 50-51: the position column is returned.
BT_Return ==
    /\ bt.pc = "loop"
    /\ bt.i >= n
    /\ bt' = [bt EXCEPT !.pc = "done"]
    /\ UNCHANGED <<factor, price, build, rolling_window, multiplier, vbt,
                   trade_info, prev_info, beta, opt>>

(***************************************************************************)
(* VectorBackTester._z_score_strategy_position (numpy).                    *)
(***************************************************************************)
\* Lines 31-33.
vbt_z_score(x, w) ==
    LET rolling_mean == vbt_compute_rolling_mean(x, w)
        rolling_std == vbt_compute_rolling_std(x, w)
    IN  [i \in DOMAIN x |-> ZDivide(x[i], rolling_mean[i], rolling_std[i])]

\* Lines 35-39.
vbt_long_entry(z, k) == [i \in DOMAIN z |-> np_gt(z[i], k)]
vbt_long_exit(z, k) == [i \in DOMAIN z |-> np_le(z[i], 0)]
vbt_short_entry(z, k) == [i \in DOMAIN z |-> -np_lt(z[i], -k)]
vbt_short_exit(z, k) == [i \in DOMAIN z |-> np_ge(z[i], 0)]

\* The loop body without the exit re-check.
vbt_loop_body_no_exit(position, i, long_entry, long_exit, short_entry, short_exit) ==
    LET p1 == IF long_entry[i] # 0 THEN 1
              ELSE IF short_entry[i] # 0 THEN -1
              ELSE position[i - 1]
    IN  [position EXCEPT ![i] = p1]

\* Lines 43-53: one pass of the loop body at bar i (0 is false).
vbt_loop_body(position, i, long_entry, long_exit, short_entry, short_exit) ==
    LET p1 == IF long_entry[i] # 0 THEN 1
              ELSE IF short_entry[i] # 0 THEN -1
              ELSE position[i - 1]
        p2 == IF (p1 = 1 /\ long_exit[i] # 0)
                 \/ (p1 = -1 /\ short_exit[i] # 0)
              THEN 0 ELSE p1
    IN  [position EXCEPT ![i] = p2]

\* The two engines are separate objects over the same input; the vector
\* engine is run once the first has ended.
VBT_Stats ==
    /\ bt.pc \in {"done", "raised"}
    /\ vbt.pc = "start"
    /\ vbt' = IF vbt_rolling_mean_raises(factor, rolling_window)
              THEN [vbt EXCEPT !.pc = "raised"]
              ELSE LET z == vbt_z_score(factor, rolling_window)
                   IN  [pc |-> "loop",
                        z_score |-> z,
                        long_entry |-> vbt_long_entry(z, multiplier),
                        long_exit |-> vbt_long_exit(z, multiplier),
                        short_entry |-> vbt_short_entry(z, multiplier),
                        short_exit |-> vbt_short_exit(z, multiplier),
                        position |-> [i \in DOMAIN factor |-> 0],
                        i |-> 1]
    /\ UNCHANGED <<factor, price, build, rolling_window, multiplier, bt,
                   trade_info, prev_info, beta, opt>>

VBT_Loop ==
    /\ vbt.pc = "loop"
    /\ vbt.i < n
    /\ vbt' = [vbt EXCEPT
                 !.position = vbt_loop_body(vbt.position, vbt.i,
                                            vbt.long_entry, vbt.long_exit,
                                            vbt.short_entry, vbt.short_exit),
                 !.i = vbt.i + 1]
    /\ UNCHANGED <<factor, price, build, rolling_window, multiplier, bt,
                   trade_info, prev_info, beta, opt>>

VBT_Return ==
    /\ vbt.pc = "loop"
    /\ vbt.i >= n
    /\ vbt' = [vbt EXCEPT !.pc = "done"]
    /\ UNCHANGED <<factor, price, build, rolling_window, multiplier, bt,
                   trade_info, prev_info, beta, opt>>

(***************************************************************************)
(* The position engines, run on every input.                               *)
(***************************************************************************)
InitPos ==
    /\ factor \in Series(FactorValues)
    /\ price = [i \in DOMAIN factor |-> 1]
    /\ build \in Builds
    /\ rolling_window \in Windows
    /\ multiplier \in Multipliers
    /\ bt = Idle
    /\ vbt = Idle
    /\ trade_info = NoLedger
    /\ prev_info = NoLedger
    /\ beta = NoBeta
    /\ opt = NoOpt

NextPos ==
    \/ BT_ZScore
    \/ BT_Loop
    \/ BT_Return
    \/ VBT_Stats
    \/ VBT_Loop
    \/ VBT_Return

SpecPos == InitPos /\ [][NextPos]_vars

(***************************************************************************)
(* Accounting (BackTester, polars).  Money is counted in units of 1/Scale: *)
(* a Float64 cell is a set, {} for null and {v} for v/Scale.  Prices are   *)
(* divisors of Scale, so that every return is a whole number of units.     *)
(***************************************************************************)
\* Units per 1.0, and TRANSACTION_COST = 0.06 / 100 in these units.
Scale == 10000
TRANSACTION_COST == 6

\* Longest series of the accounting and optimizer runs.
MaxBars == 3

\* Values a price takes, and values a factor takes in these runs.
PriceValues == {1, 2}
BarFactorValues == {0, 1}

\* rolling_window values tried in these runs.
BarWindows == {w \in Windows : w <= MaxBars + 1}

Bars(S) == UNION {[0..(k - 1) -> S] : k \in 1..MaxBars}

RECURSIVE bt_run_loop(_, _, _, _, _, _)
\* Lines 37-48: the loop from bar i to the last bar.
bt_run_loop(position, i, long_entry, long_exit, short_entry, short_exit) ==
    IF i >= len(position) THEN position
    ELSE bt_run_loop(bt_loop_body(position, i, long_entry, long_exit,
                                  short_entry, short_exit),
                     i + 1, long_entry, long_exit, short_entry, short_exit)

\* BackTester._z_score_strategy as one call, for a window that does not
\* raise: the position column of the returned frame.
z_score_strategy(x, w, k, b) ==
    LET z == bt_z_score(x, w, b)
    IN  bt_run_loop([i \in DOMAIN x |-> 0], 1,
                    bt_long_entry(z, k, b), bt_long_exit(z, k, b),
                    bt_short_entry(z, k, b), bt_short_exit(z, k, b))

\* pl.col(c).shift(1) of a column without nulls: null at bar 0.
pl_shift(col) == [i \in DOMAIN col |-> IF i = 0 THEN {} ELSE {col[i - 1]}]

\* The variant that fills bar 0 with 0.
compute_trans_cost_zero_filled(position) ==
    [i \in DOMAIN position |->
        IF i = 0 THEN {0}
        ELSE {abs(position[i] - position[i - 1]) * TRANSACTION_COST}]

\* BackTester._compute_trans_cost: abs(position - position.shift(1)) * rate.
compute_trans_cost(position) ==
    LET shifted == pl_shift(position)
    IN  [i \in DOMAIN position |->
            {abs(position[i] - q) * TRANSACTION_COST : q \in shifted[i]}]

\* The variant whose first cell is 0 instead of null.
pct_change_zero_filled(p) ==
    [i \in DOMAIN p |->
        IF i = 0 THEN {0} ELSE {(Scale * (p[i] - p[i - 1])) \div p[i - 1]}]

\* pl.Series.pct_change() of a column without nulls: null at bar 0, then
\* price[i] / price[i-1] - 1.
pct_change(p) ==
    [i \in DOMAIN p |->
        IF i = 0 THEN {} ELSE {(Scale * (p[i] - p[i - 1])) \div p[i - 1]}]

\* The variant that multiplies the return by the position of the same bar.
PnL_column_same_bar(position, returns, trans_cost) ==
    [i \in DOMAIN position |->
        {position[i] * r - t : r \in returns[i], t \in trans_cost[i]}]

\* Lines 71-78: position.shift(1) * returns - trans_cost.
PnL_column(position, returns, trans_cost) ==
    LET shifted == pl_shift(position)
    IN  [i \in DOMAIN position |->
            {q * r - t : q \in shifted[i], r \in returns[i],
                         t \in trans_cost[i]}]

RECURSIVE SumNonNull(_, _)
\* The sum of the non-null cells of col[0..i].
SumNonNull(col, i) ==
    IF i < 0 THEN 0
    ELSE SumNonNull(col, i - 1)
         + (IF col[i] = {} THEN 0 ELSE CHOOSE v \in col[i] : TRUE)

\* pl.col(c).cum_sum(): a null cell stays null and adds nothing.
cum_sum(col) ==
    [i \in DOMAIN col |-> IF col[i] = {} THEN {} ELSE {SumNonNull(col, i)}]

\* BackTester._compute_trade_statistics for a window that does not raise:
\* _z_score_strategy, _compute_PnL (with _compute_trans_cost), _compute_cum_PnL.
compute_trade_statistics(x, p, w, k, b) ==
    LET position == z_score_strategy(x, w, k, b)
        trans_cost == compute_trans_cost(position)
        returns == pct_change(p)
        PnL == PnL_column(position, returns, trans_cost)
    IN  [pc |-> "ledger",
         position |-> position,
         trans_cost |-> trans_cost,
         returns |-> returns,
         PnL |-> PnL,
         strategy_cumPnL |-> cum_sum(PnL),
         benchmark_cumPnL |-> cum_sum(returns)]

\* A call of _compute_trade_statistics(w, k): the ledger it returns replaces
\* the one of the call before, which is kept beside it.
ComputeTradeStatistics ==
    /\ \E w \in BarWindows, k \in Multipliers :
          /\ trade_info' =
                IF bt_window_raises(w) THEN [pc |-> "raised"]
                ELSE compute_trade_statistics(factor, price, w, k, build)
    /\ prev_info' = trade_info
    /\ beta' = NoBeta
    /\ UNCHANGED <<factor, price, build, rolling_window, multiplier, bt, vbt,
                   opt>>

\* series.drop_nulls(): the kept bars, in order.
RECURSIVE KeptBars(_, _)
KeptBars(col, i) ==
    IF i >= len(col) THEN <<>>
    ELSE (IF col[i] = {} THEN <<>> ELSE <<i>>) \o KeptBars(col, i + 1)

ValuesAt(col, bars) ==
    [j \in 1..Len(bars) |-> CHOOSE v \in col[bars[j]] : TRUE]

\* Line 125: the bars of PnL.drop_nulls().
strategy_sample(ledger) == KeptBars(ledger.PnL, 0)

\* Line 126: the bars of returns.drop_nulls().
benchmark_sample(ledger) == KeptBars(ledger.returns, 0)

RECURSIVE SumSeq(_, _)
\* a[1] + ... + a[j]
SumSeq(a, j) == IF j = 0 THEN 0 ELSE a[j] + SumSeq(a, j - 1)

\* Lines 127-129: the slope of the least-squares line of strategy on
\* benchmark, as the fraction <<numerator, denominator>>; on a constant
\* benchmark the solver returns the minimum-norm solution, 0.
ols_slope(benchmark, strategy) ==
    LET k == Len(benchmark)
        sb == SumSeq(benchmark, k)
        ss == SumSeq(strategy, k)
        sbs == SumSeq([j \in 1..k |-> benchmark[j] * strategy[j]], k)
        sbb == SumSeq([j \in 1..k |-> benchmark[j] * benchmark[j]], k)
        den == k * sbb - sb * sb
    IN  IF den = 0 THEN <<0, 1>> ELSE <<k * sbs - sb * ss, den>>

\* BackTester._compute_beta: the two samples are dropped independently and
\* handed to LinearRegression.fit, which raises on an empty sample or on
\* samples of different lengths.
ComputeBeta ==
    /\ trade_info.pc = "ledger"
    /\ beta.pc = "none"
    /\ LET sb == strategy_sample(trade_info)
           bb == benchmark_sample(trade_info)
           strategy == ValuesAt(trade_info.PnL, sb)
           benchmark == ValuesAt(trade_info.returns, bb)
           fits == Len(sb) # 0 /\ Len(sb) = Len(bb)
       IN  beta' =
             [pc |-> IF fits THEN "fit" ELSE "raised",
              strategy_bars |-> sb,
              strategy |-> strategy,
              benchmark_bars |-> bb,
              benchmark |-> benchmark,
              slope |-> IF fits THEN ols_slope(benchmark, strategy)
                        ELSE <<0, 1>>]
    /\ UNCHANGED <<factor, price, build, rolling_window, multiplier, bt, vbt,
                   trade_info, prev_info, opt>>

InitLedger ==
    /\ factor \in Bars(BarFactorValues)
    /\ price \in [DOMAIN factor -> PriceValues]
    /\ build \in Builds
    /\ rolling_window = 0
    /\ multiplier = 0
    /\ bt = Idle
    /\ vbt = Idle
    /\ trade_info = NoLedger
    /\ prev_info = NoLedger
    /\ beta = NoBeta
    /\ opt = NoOpt

NextLedger ==
    \/ ComputeTradeStatistics
    \/ ComputeBeta

SpecLedger == InitLedger /\ [][NextLedger]_vars

(***************************************************************************)
(* Sharpe ratio and the grid optimizer.                                    *)
(***************************************************************************)
\* Most cells of a grid.
MaxCells == 4

\* The timestamp column of these runs: one bar every 12 hours from epoch 0.
timestamp_of(i) == i * 43200000

\* Lines 109-111: from_epoch(ms) truncated to "1d": the day of a bar.
day_of(ts) == ts \div 86400000

RECURSIVE SumOfDay(_, _, _)
\* Lines 112-113: the sum of the non-null PnL of the bars i.. that fall on
\* day d (a day whose cells are all null sums to 0).
SumOfDay(PnL, d, i) ==
    IF i >= len(PnL) THEN 0
    ELSE SumOfDay(PnL, d, i + 1)
         + (IF day_of(timestamp_of(i)) = d /\ PnL[i] # {}
            THEN CHOOSE v \in PnL[i] : TRUE ELSE 0)

\* Lines 110-115: aggPnL, one cell per day (the days of bars 0..n-1 are
\* 0..last), in day order; no cell is null, so drop_nulls keeps them all.
agg_pnl_of(ledger) ==
    LET last == day_of(timestamp_of(len(ledger.PnL) - 1))
    IN  [d \in 1..(last + 1) |-> SumOfDay(ledger.PnL, d - 1, 0)]

\* A Sharpe value: 0, NaN, or the ratio (mean / sd) * sqrt(trading_days) of an
\* aggregate with sd > 0, kept as the aggregate it is computed from.
SharpeZero == [kind |-> "zero", agg |-> <<>>, trading_days |-> 0]
SharpeNaN == [kind |-> "nan", agg |-> <<>>, trading_days |-> 0]
SharpeRatio(agg, d) == [kind |-> "ratio", agg |-> agg, trading_days |-> d]

\* BackTester.compute_sharpe_ratio, lines 115-122.  np.std(ddof=1) of one
\* value is NaN, which is not == 0; of several it is 0 when they are equal.
compute_sharpe_ratio(ledger, trading_days) ==
    LET agg_pnl == agg_pnl_of(ledger)
    IN  IF Len(agg_pnl) = 0 THEN SharpeZero
        ELSE IF Len(agg_pnl) = 1 THEN SharpeNaN
        ELSE IF \A j \in DOMAIN agg_pnl : agg_pnl[j] = agg_pnl[1]
             THEN SharpeZero
             ELSE SharpeRatio(agg_pnl, trading_days)

\* _compute_sharpe_in_optimization, for a window that does not raise.
compute_sharpe_in_optimization(w, k) ==
    compute_sharpe_ratio(compute_trade_statistics(factor, price, w, k, build),
                         365)

\* _compute_sharpe_with_params run by a worker: (params, sharpe_ratio), or
\* the exception of _z_score_strategy.
compute_sharpe_with_params(params) ==
    IF bt_window_raises(params[1])
    THEN [status |-> "raised", params |-> params, sharpe |-> SharpeNaN]
    ELSE [status |-> "ok", params |-> params,
          sharpe |-> compute_sharpe_in_optimization(params[1], params[2])]

Pending == [status |-> "pending", params |-> <<0, 0>>, sharpe |-> SharpeNaN]

\* The pairs built with the two loops exchanged.
xy_pairs_of_window_major(rolling_windows, multipliers) ==
    LET R == len(multipliers)
        C == len(rolling_windows)
    IN  [t \in 0..(R * C - 1) |->
            <<rolling_windows[t \div R], multipliers[t % R]>>]

\* Line 176: [(xi, yi) for yi in multipliers for xi in rolling_windows].
xy_pairs_of(rolling_windows, multipliers) ==
    LET R == len(multipliers)
        C == len(rolling_windows)
    IN  [t \in 0..(R * C - 1) |->
            <<rolling_windows[t % C], multipliers[t \div C]>>]

\* Lines 179-180: zip(*results), then reshape(len(multipliers),
\* len(rolling_windows)) of the values in task order.
reshape(results, R, C) ==
    [r \in 0..(R - 1) |-> [c \in 0..(C - 1) |-> results[r * C + c].sharpe]]

\* An axis: the values of S between two of them, in increasing order.
SortedRun(T) ==
    [i \in 0..(Cardinality(T) - 1) |->
        CHOOSE v \in T : Cardinality({u \in T : u < v}) = i]

Axes(S) ==
    {SortedRun({v \in S : lo <= v /\ v <= hi}) : lo \in S, hi \in S}
        \ {SortedRun({})}

\* Lines 172-178: the pairs are built and handed to pool.map.
Optimize ==
    /\ opt.pc = "none"
    /\ \E W \in Axes(BarWindows), M \in Axes(Multipliers) :
          /\ len(W) * len(M) <= MaxCells
          /\ opt' = [pc |-> "pool",
                     rolling_windows |-> W,
                     multipliers |-> M,
                     xy_pairs |-> xy_pairs_of(W, M),
                     results |-> [t \in 0..(len(W) * len(M) - 1) |-> Pending],
                     finished |-> <<>>,
                     z |-> <<>>]
    /\ UNCHANGED <<factor, price, build, rolling_window, multiplier, bt, vbt,
                   trade_info, prev_info, beta>>

\* A worker of the pool runs one task; tasks end in any order, and the result
\* of task t is stored at index t of the map's result list.
Worker ==
    /\ opt.pc = "pool"
    /\ \E t \in DOMAIN opt.results :
          /\ opt.results[t].status = "pending"
          /\ opt' = [opt EXCEPT
                       !.results[t] = compute_sharpe_with_params(opt.xy_pairs[t]),
                       !.finished = Append(opt.finished, t)]
    /\ UNCHANGED <<factor, price, build, rolling_window, multiplier, bt, vbt,
                   trade_info, prev_info, beta>>

\* Lines 178-180: pool.map returns once every task has ended; it re-raises a
\* task's exception, which leaves optimize_params_and_plot_heatmap, and
\* otherwise the values are reshaped into the grid.
MapReturn ==
    /\ opt.pc = "pool"
    /\ \A t \in DOMAIN opt.results : opt.results[t].status # "pending"
    /\ opt' = IF \E t \in DOMAIN opt.results : opt.results[t].status = "raised"
              THEN [opt EXCEPT !.pc = "raised"]
              ELSE [opt EXCEPT
                      !.pc = "grid",
                      !.z = reshape(opt.results, len(opt.multipliers),
                                    len(opt.rolling_windows))]
    /\ UNCHANGED <<factor, price, build, rolling_window, multiplier, bt, vbt,
                   trade_info, prev_info, beta>>

\* Lines 181-206: the axis labels read rolling_windows[-2] and
\* multipliers[-2], an IndexError on an axis of one value; then the heatmap.
Heatmap ==
    /\ opt.pc = "grid"
    /\ opt' = [opt EXCEPT
                 !.pc = IF len(opt.rolling_windows) < 2
                           \/ len(opt.multipliers) < 2
                        THEN "label_error" ELSE "heatmap"]
    /\ UNCHANGED <<factor, price, build, rolling_window, multiplier, bt, vbt,
                   trade_info, prev_info, beta>>

\* In these runs every series has MaxBars bars and the price is the factor
\* plus one.
InitGrid ==
    /\ factor \in [0..(MaxBars - 1) -> BarFactorValues]
    /\ price = [i \in DOMAIN factor |-> factor[i] + 1]
    /\ build \in Builds
    /\ rolling_window = 0
    /\ multiplier = 0
    /\ bt = Idle
    /\ vbt = Idle
    /\ trade_info = NoLedger
    /\ prev_info = NoLedger
    /\ beta = NoBeta
    /\ opt = NoOpt

NextGrid ==
    \/ Optimize
    \/ Worker
    \/ MapReturn
    \/ Heatmap

SpecGrid == InitGrid /\ [][NextGrid]_vars

(***************************************************************************)
(* Claims about the position engines (checked under SpecPos).              *)
(***************************************************************************)
\* The flags of an engine at bar j as booleans (the loop's truth tests).
BtFlags(j) ==
    [long_entry |-> Truthy(bt.long_entry[j]),
     long_exit |-> Truthy(bt.long_exit[j]),
     short_entry |-> Truthy(bt.short_entry[j]),
     short_exit |-> Truthy(bt.short_exit[j])]

VbtFlags(j) ==
    [long_entry |-> vbt.long_entry[j] # 0,
     long_exit |-> vbt.long_exit[j] # 0,
     short_entry |-> vbt.short_entry[j] # 0,
     short_exit |-> vbt.short_exit[j] # 0]

Running(e) == e.pc \in {"loop", "done"}

\* Bars the loop of engine e has processed.
Processed(e) == IF Running(e) THEN 1..(e.i - 1) ELSE {}

RECURSIVE RefMachineBt(_)
\* The reference state machine over the polars engine's flags.
RefMachineBt(j) ==
    IF j = 0 THEN 0
    ELSE LET f == BtFlags(j)
             entered == IF f.long_entry THEN 1
                        ELSE IF f.short_entry THEN -1
                        ELSE RefMachineBt(j - 1)
         IN  IF (entered = 1 /\ f.long_exit) \/ (entered = -1 /\ f.short_exit)
             THEN 0 ELSE entered

RECURSIVE RefMachineVbt(_)
\* The reference state machine over the numpy engine's flags.
RefMachineVbt(j) ==
    IF j = 0 THEN 0
    ELSE LET f == VbtFlags(j)
             entered == IF f.long_entry THEN 1
                        ELSE IF f.short_entry THEN -1
                        ELSE RefMachineVbt(j - 1)
         IN  IF (entered = 1 /\ f.long_exit) \/ (entered = -1 /\ f.short_exit)
             THEN 0 ELSE entered

AnyFlag(f) == f.long_entry \/ f.long_exit \/ f.short_entry \/ f.short_exit

\* C1: in both engines position[0] = 0 and every processed bar holds the
\* reference state machine's value for the engine's flags: +1 on a long entry,
\* else -1 on a short entry, else the previous position, then 0 when the
\* matching exit flag is set.  Hence every position is in {-1, 0, 1} and a
\* position differs from the previous bar's only where a flag is set.
C1_PositionIsReferenceMachine ==
    /\ Running(bt) =>
          /\ bt.position[0] = 0
          /\ \A j \in Processed(bt) :
                /\ bt.position[j] = RefMachineBt(j)
                /\ bt.position[j] \in {-1, 0, 1}
                /\ bt.position[j] # bt.position[j - 1] => AnyFlag(BtFlags(j))
    /\ Running(vbt) =>
          /\ vbt.position[0] = 0
          /\ \A j \in Processed(vbt) :
                /\ vbt.position[j] = RefMachineVbt(j)
                /\ vbt.position[j] \in {-1, 0, 1}
                /\ vbt.position[j] # vbt.position[j - 1] => AnyFlag(VbtFlags(j))

\* Both engines have returned, and in both a long position held at one bar
\* was forced flat by the long-exit flag at the next.
C1_Witness ==
    /\ bt.pc = "done"
    /\ vbt.pc = "done"
    /\ \E j \in Processed(bt) :
          /\ bt.position[j - 1] = 1
          /\ bt.position[j] = 0
          /\ BtFlags(j).long_exit
          /\ vbt.position[j - 1] = 1
          /\ vbt.position[j] = 0
          /\ VbtFlags(j).long_exit

\* The rolling standard deviation at bar j is 0.
StdIsZero(std, j) == std[j].kind = "num" /\ std[j].n = 0

BtStd == pl_rolling_std(factor, rolling_window, build)
VbtStd == vbt_compute_rolling_std(factor, rolling_window)

\* C2: at every processed bar whose z-score is missing (the window is not yet
\* full, or the rolling standard deviation is 0) all four flags are false and
\* the position is the previous bar's.
C2_MissingZNeverSignals ==
    /\ \A j \in Processed(bt) :
          (j < rolling_window - 1 \/ StdIsZero(BtStd, j)) =>
              /\ ~AnyFlag(BtFlags(j))
              /\ bt.position[j] = bt.position[j - 1]
    /\ \A j \in Processed(vbt) :
          (j < rolling_window - 1 \/ StdIsZero(VbtStd, j)) =>
              /\ ~AnyFlag(VbtFlags(j))
              /\ vbt.position[j] = vbt.position[j - 1]

\* C7: with a window longer than the series or below 1, neither engine
\* returns a position series.
C7_BadWindowIsReported ==
    (rolling_window > n \/ rolling_window < 1) =>
        /\ bt.pc # "done"
        /\ vbt.pc # "done"

\* C8: for a valid window and a multiplier >= 0 the two engines return the
\* same position at every bar.
C8_EnginesAgree ==
    (/\ rolling_window >= 1
     /\ rolling_window <= n
     /\ multiplier >= 0
     /\ bt.pc = "done"
     /\ vbt.pc = "done") => bt.position = vbt.position

\* z is a number at or below 0 (resp. at or above 0).
ZAtOrBelowZero(z) == z.kind = "ninf" \/ (z.kind = "num" /\ z.an <= 0)
ZAtOrAboveZero(z) == z.kind = "pinf" \/ (z.kind = "num" /\ z.an >= 0)

\* C10: after a bar is processed, a long position is never held there with
\* the long-exit flag set or a z-score at or below 0, and a short position
\* never with the short-exit flag set or a z-score at or above 0.
C10_NoPositionAgainstExit ==
    /\ \A j \in Processed(bt) :
          /\ bt.position[j] = 1 =>
                ~BtFlags(j).long_exit /\ ~ZAtOrBelowZero(bt.z_score[j])
          /\ bt.position[j] = -1 =>
                ~BtFlags(j).short_exit /\ ~ZAtOrAboveZero(bt.z_score[j])
    /\ \A j \in Processed(vbt) :
          /\ vbt.position[j] = 1 =>
                ~VbtFlags(j).long_exit /\ ~ZAtOrBelowZero(vbt.z_score[j])
          /\ vbt.position[j] = -1 =>
                ~VbtFlags(j).short_exit /\ ~ZAtOrAboveZero(vbt.z_score[j])

\* Both engines have returned, and in both a long was carried into a bar
\* whose z-score is a positive number not above the entry threshold.
C10_Witness ==
    /\ bt.pc = "done"
    /\ vbt.pc = "done"
    /\ \E j \in Processed(bt) :
          /\ bt.position[j - 1] = 1
          /\ bt.position[j] = 1
          /\ ~BtFlags(j).long_entry
          /\ bt.z_score[j].kind = "num"
          /\ vbt.position[j - 1] = 1
          /\ vbt.position[j] = 1
          /\ ~VbtFlags(j).long_entry
          /\ vbt.z_score[j].kind = "num"

(***************************************************************************)
(* Claims about the accounting (checked under SpecLedger).                 *)
(***************************************************************************)
IsLedger(l) == l.pc = "ledger"

\* C3: in every ledger trans_cost[0] is null, and for i > 0 trans_cost[i] is
\* rate * |position[i] - position[i-1]|: zero exactly when the two positions
\* are equal, and otherwise rate or twice rate.
C3_TransCost ==
    IsLedger(trade_info) =>
        /\ trade_info.trans_cost[0] = {}
        /\ \A i \in DOMAIN trade_info.position \ {0} :
              LET d == abs(trade_info.position[i] - trade_info.position[i - 1])
                  t == trade_info.trans_cost[i]
              IN  /\ t = {TRANSACTION_COST * d}
                  /\ (t = {0}) <=> (d = 0)
                  /\ d # 0 => t \in {{TRANSACTION_COST}, {2 * TRANSACTION_COST}}

\* A ledger with a bar that costs the rate and a bar that costs twice the rate.
C3_Witness ==
    /\ IsLedger(trade_info)
    /\ \E i, j \in DOMAIN trade_info.position :
          /\ trade_info.trans_cost[i] = {TRANSACTION_COST}
          /\ trade_info.trans_cost[j] = {2 * TRANSACTION_COST}

\* PnL[i] of ledger l is position[i-1] * returns[i] - trans_cost[i].
PnLIsLagged(l) ==
    /\ l.PnL[0] = {}
    /\ \A i \in DOMAIN l.position \ {0} :
          l.PnL[i] = {l.position[i - 1] * r - t :
                        r \in l.returns[i], t \in l.trans_cost[i]}

\* C4: in every ledger PnL[0] is null and for i >= 1
\* PnL[i] = position[i-1] * returns[i] - trans_cost[i]; two ledgers that agree
\* on position[i-1], returns[i] and trans_cost[i] have the same PnL[i],
\* whatever their position[i].
C4_PnLNoLookahead ==
    /\ IsLedger(trade_info) => PnLIsLagged(trade_info)
    /\ (IsLedger(trade_info) /\ IsLedger(prev_info)) =>
          \A i \in DOMAIN trade_info.position \ {0} :
              (/\ trade_info.position[i - 1] = prev_info.position[i - 1]
               /\ trade_info.returns[i] = prev_info.returns[i]
               /\ trade_info.trans_cost[i] = prev_info.trans_cost[i])
              => trade_info.PnL[i] = prev_info.PnL[i]

\* Two ledgers of the same series that agree on position[i-1], returns[i] and
\* trans_cost[i] at a bar with a non-zero return, and hold opposite positions
\* at bar i.
C4_Witness ==
    /\ IsLedger(trade_info)
    /\ IsLedger(prev_info)
    /\ \E i \in DOMAIN trade_info.position \ {0} :
          /\ trade_info.position[i - 1] = prev_info.position[i - 1]
          /\ trade_info.trans_cost[i] = prev_info.trans_cost[i]
          /\ trade_info.position[i] # prev_info.position[i]
          /\ trade_info.returns[i] \notin {{}, {0}}

\* C9: the samples handed to the regression are aligned by bar: a bar is kept
\* in the PnL sample exactly when it is kept in the returns sample, so the two
\* samples have the same length and their k-th values come from the same bar.
C9_BetaSamplesAligned ==
    beta.pc # "none" =>
        /\ \A i \in DOMAIN trade_info.PnL :
              (\E j \in DOMAIN beta.strategy_bars : beta.strategy_bars[j] = i)
              <=> (\E j \in DOMAIN beta.benchmark_bars : beta.benchmark_bars[j] = i)
        /\ Len(beta.strategy) = Len(beta.benchmark)
        /\ \A j \in DOMAIN beta.strategy_bars :
              beta.strategy_bars[j] = beta.benchmark_bars[j]

\* A regression fitted on at least two bars, bar 0 dropped from both samples.
C9_Witness ==
    /\ beta.pc = "fit"
    /\ Len(beta.strategy) >= 2
    /\ beta.strategy_bars[1] = 1
    /\ beta.strategy # beta.benchmark

(***************************************************************************)
(* Claims about the grid optimizer (checked under SpecGrid).               *)
(***************************************************************************)
GridAssembled == opt.pc \in {"grid", "heatmap", "label_error"}

\* C5: whatever the order in which the tasks ended, the assembled grid has
\* len(multipliers) rows and len(rolling_windows) columns, and cell [r][c] is
\* the Sharpe value (365 periods) of the pipeline called directly with
\* rolling_windows[c] and multipliers[r].
C5_GridCellIsDirectSharpe ==
    GridAssembled =>
        /\ DOMAIN opt.z = DOMAIN opt.multipliers
        /\ \A r \in DOMAIN opt.z :
              /\ DOMAIN opt.z[r] = DOMAIN opt.rolling_windows
              /\ \A c \in DOMAIN opt.z[r] :
                    opt.z[r][c] =
                        compute_sharpe_in_optimization(opt.rolling_windows[c],
                                                       opt.multipliers[r])

\* A 2 x 2 grid whose tasks did not end in task order and whose cells differ
\* along the row and along the column.
C5_Witness ==
    /\ GridAssembled
    /\ len(opt.multipliers) = 2
    /\ len(opt.rolling_windows) = 2
    /\ opt.finished # <<0, 1, 2, 3>>
    /\ opt.z[0][0] # opt.z[0][1]
    /\ opt.z[0][0] # opt.z[1][0]
    /\ opt.z[0][1] # opt.z[1][0]

\* C6: when some task raised and some other succeeded, the grid is still
\* assembled, and every cell whose task succeeded holds its own Sharpe value.
C6_FailureIsPerCell ==
    (/\ opt.pc \notin {"none", "pool"}
     /\ \E t \in DOMAIN opt.results : opt.results[t].status = "raised"
     /\ \E t \in DOMAIN opt.results : opt.results[t].status = "ok")
    => /\ GridAssembled
       /\ \A r \in DOMAIN opt.multipliers, c \in DOMAIN opt.rolling_windows :
             ~bt_window_raises(opt.rolling_windows[c]) =>
                 opt.z[r][c] =
                     compute_sharpe_in_optimization(opt.rolling_windows[c],
                                                    opt.multipliers[r])

====
